---------------------------- MODULE Spec2Model ----------------------------
(***************************************************************************)
(* A model of momentum_scan.py: the field parsers, the display formatters, *)
(* the sorter, the row renderer, the manifest rewrite and main's pipeline. *)
(*                                                                         *)
(* A Python str is a sequence of one-character strings.  Python's None is  *)
(* the one-element sequence PyNone, whose element is no character.  A      *)
(* float is a sign-and-magnitude decimal fraction [neg, n, d] with value   *)
(* (-1)^neg * n / d, d a power of ten, kept in lowest decimal terms; the   *)
(* sign is kept apart because Python keeps it on a zero (float("-0")).     *)
(***************************************************************************)
EXTENDS Integers, Sequences, FiniteSets, TLC

VARIABLES
    value,      \* the raw string handed to a parser or formatter
    op,         \* the function last applied to value ("" before any)
    result,     \* what that function returned
    csv,        \* the data lines of the input file
    header,     \* the field names the input file's header row declares
    rows,       \* main's rows list
    sortArg,    \* args.sort and args.order
    cells,      \* the table body generate_html built, one record per row
    pc,         \* main's position
    steps,      \* the steps main has completed, oldest first
    printed,    \* what main has printed, oldest first
    args,       \* the other command-line arguments
    fs,         \* the files on disk: path -> content
    scans,      \* the list update_manifest returned
    date_str,   \* main's date_str
    html_path,  \* main's html_path
    git,        \* the version-control commands run, oldest first
    status,     \* "running", or how the process ended
    tbody,      \* the page: the rows of the table body, top to bottom
    currentSort,    \* the page script's currentSort
    sortedHeaders,  \* the page: the headers that carry the class 'sorted'
    arrows      \* the page: the text of every header's sort arrow

fmtVars == <<value, op, result>>
tableVars == <<csv, header, rows, sortArg, cells>>
runVars == <<args, date_str, html_path, git, status>>
pageVars == <<tbody, currentSort, sortedHeaders, arrows>>
vars == <<fmtVars, tableVars, runVars, pageVars, pc, steps, printed, fs, scans>>

-----------------------------------------------------------------------------
(* Bounds of the checked inputs.                                           *)

\* Longest generated raw string, in characters.
MaxLen == 3

\* Most data lines of an input file.
MaxRows == 2

-----------------------------------------------------------------------------
(* Python values.                                                          *)

PyNone == <<"None">>

NoneVal == [none |-> TRUE, err |-> FALSE, neg |-> FALSE, n |-> 0, d |-> 1]

\* An exception on its way up (float's ValueError).
Raised == [none |-> FALSE, err |-> TRUE, neg |-> FALSE, n |-> 0, d |-> 1]

RECURSIVE Norm(_, _)
Norm(n, d) == IF d > 1 /\ n % 10 = 0 THEN Norm(n \div 10, d \div 10) ELSE <<n, d>>

Float(neg, n, d) ==
    LET nd == Norm(n, d) IN [none |-> FALSE, err |-> FALSE, neg |-> neg, n |-> nd[1], d |-> nd[2]]

\* The float of an int literal of the source.
Lit(k) == Float(k < 0, IF k < 0 THEN -k ELSE k, 1)

\* The float p / q of a decimal literal of the source (q a power of ten).
Dec(p, q) == Float(p < 0, IF p < 0 THEN -p ELSE p, q)

(* Comparison of floats, whole parts first so that no product leaves the   *)
(* machine integers; -0.0 equals 0.0.                                      *)
Floor(a) == IF a.neg THEN -((a.n + a.d - 1) \div a.d) ELSE a.n \div a.d
FracN(a) == (IF a.neg THEN -a.n ELSE a.n) - Floor(a) * a.d
Lt(a, b) ==
    \/ Floor(a) < Floor(b)
    \/ Floor(a) = Floor(b) /\ FracN(a) * b.d < FracN(b) * a.d
Ge(a, b) == ~Lt(a, b)

\* Python's truth value of a float: zero of either sign is falsy.
Truthy(a) == a.n # 0

-----------------------------------------------------------------------------
(* str methods.                                                            *)

DigitChars == <<"0", "1", "2", "3", "4", "5", "6", "7", "8", "9">>
IsDigit(c) == \E i \in 1..10 : DigitChars[i] = c
DigitVal(c) == CHOOSE i \in 0..9 : DigitChars[i + 1] = c

\* str.replace(c, ''): every occurrence of the character goes.
Remove(s, c) == SelectSeq(s, LAMBDA x : x # c)

RECURSIVE LStrip(_)
LStrip(s) == IF s # <<>> /\ Head(s) = " " THEN LStrip(Tail(s)) ELSE s

RECURSIVE RStrip(_)
RStrip(s) == IF s # <<>> /\ s[Len(s)] = " " THEN RStrip(SubSeq(s, 1, Len(s) - 1)) ELSE s

\* str.strip()
Strip(s) == RStrip(LStrip(s))

\* str(value): None prints as the word None.
Str(v) == IF v = PyNone THEN <<"N", "o", "n", "e">> ELSE v

RECURSIVE DigitsToNat(_)
DigitsToNat(s) ==
    IF s = <<>> THEN 0 ELSE 10 * DigitsToNat(SubSeq(s, 1, Len(s) - 1)) + DigitVal(s[Len(s)])

\* Position of the first "." of s, 0 when there is none.
DotAt(s) == IF \E i \in 1..Len(s) : s[i] = "." THEN CHOOSE i \in 1..Len(s) : s[i] = "." /\ \A j \in 1..(i - 1) : s[j] # "." ELSE 0

RECURSIVE Pow10(_)
Pow10(k) == IF k = 0 THEN 1 ELSE 10 * Pow10(k - 1)

(* float(s) of a str over the digits, sign, point, separators and other    *)
(* characters: surrounding whitespace is ignored, then an optional sign,   *)
(* then digits with at most one point and at least one digit.  Anything    *)
(* else raises ValueError.  (Exponents, underscores, inf and nan need       *)
(* letters that the inputs drawn here do not contain.)                     *)
PyFloat(s) ==
    LET t == Strip(s)
        signed == t # <<>> /\ Head(t) \in {"+", "-"}
        body == IF signed THEN Tail(t) ELSE t
        dot == DotAt(body)
        ipart == IF dot = 0 THEN body ELSE SubSeq(body, 1, dot - 1)
        fpart == IF dot = 0 THEN <<>> ELSE SubSeq(body, dot + 1, Len(body))
        digits == ipart \o fpart
    IN  IF digits # <<>> /\ \A i \in 1..Len(digits) : IsDigit(digits[i])
        THEN Float(signed /\ Head(t) = "-", DigitsToNat(digits), Pow10(Len(fpart)))
        ELSE Raised

-----------------------------------------------------------------------------
(* Field parsing.                                                          *)

\* `not value`: None and the empty str are falsy.
Falsy(v) == v = PyNone \/ v = <<>>

\* try: return <the float> / except (ValueError, AttributeError): return None
Except(r) == IF r.err THEN NoneVal ELSE r

parse_percent(v) ==
    IF Falsy(v) \/ Strip(Str(v)) = <<>> THEN NoneVal
    ELSE Except(PyFloat(Strip(Remove(Remove(Str(v), "%"), ","))))

\* parse_number returning 0.0 for a missing value.
parse_number_zero(v) ==
    IF Falsy(v) \/ Strip(Str(v)) = <<>> THEN Lit(0)
    ELSE Except(PyFloat(Strip(Remove(Str(v), ","))))

parse_number(v) ==
    IF Falsy(v) \/ Strip(Str(v)) = <<>> THEN NoneVal
    ELSE Except(PyFloat(Strip(Remove(Str(v), ","))))

-----------------------------------------------------------------------------
(* Format specifications f'{num:.kf}'.                                     *)

RECURSIVE NatToStr(_)
NatToStr(k) ==
    IF k < 10 THEN <<DigitChars[k + 1]>> ELSE NatToStr(k \div 10) \o <<DigitChars[(k % 10) + 1]>>

RECURSIVE ZeroPad(_, _)
ZeroPad(s, k) == IF Len(s) >= k THEN s ELSE ZeroPad(<<"0">> \o s, k)

\* The ',' option: a separator before every group of three digits.
RECURSIVE Grouped(_)
Grouped(s) ==
    IF Len(s) <= 3 THEN s
    ELSE Grouped(SubSeq(s, 1, Len(s) - 3)) \o <<",">> \o SubSeq(s, Len(s) - 2, Len(s))

(* |a| rounded to k decimals, as <<whole part, the k decimals as a number>>.*)
(* A tie goes to the even neighbour, which is what the conversion does     *)
(* when the tie is a binary fraction (every x.5 at k = 0, x.25 and x.75 at *)
(* k = 1).  A decimal tie that is no binary fraction (0.05 at k = 1) is    *)
(* rounded by Python towards the double it is stored as, which this        *)
(* decimal model does not carry: there the last digit may differ by one.   *)
Rounded(a, k) ==
    LET ip == a.n \div a.d
        rem == a.n % a.d
        unit == IF a.d >= Pow10(k) THEN a.d \div Pow10(k) ELSE 1
        q == IF a.d >= Pow10(k) THEN rem \div unit ELSE rem * (Pow10(k) \div a.d)
        r == IF a.d >= Pow10(k) THEN rem % unit ELSE 0
        last == IF k = 0 THEN ip % 2 ELSE q % 2
        up == 2 * r > unit \/ (2 * r = unit /\ last = 1)
        f == IF up THEN q + 1 ELSE q
    IN  IF f = Pow10(k) THEN <<ip + 1, 0>> ELSE <<ip, f>>

\* f'{a:.kf}', with the '+' and ',' options when asked for.
Fixed(a, k, plus, comma) ==
    LET r == Rounded(a, k)
        whole == IF comma THEN Grouped(NatToStr(r[1])) ELSE NatToStr(r[1])
    IN  (IF a.neg THEN <<"-">> ELSE IF plus THEN <<"+">> ELSE <<>>)
        \o whole
        \o (IF k = 0 THEN <<>> ELSE <<".">> \o ZeroPad(NatToStr(r[2]), k))

\* a / 10^k, the divisions by 1_000_000 and 1_000_000_000.
Div10(a, k) == Float(a.neg, a.n, a.d * Pow10(k))

Dash == <<"-">>

-----------------------------------------------------------------------------
(* Display formatters.                                                     *)

format_liquidity(v) ==
    LET num == parse_number(v)
    IN  IF num.none THEN Dash
        ELSE IF Ge(num, Lit(1000000000)) THEN <<"$">> \o Fixed(Div10(num, 9), 1, FALSE, FALSE) \o <<"B">>
        ELSE <<"$">> \o Fixed(Div10(num, 6), 0, FALSE, FALSE) \o <<"M">>

format_price(v) ==
    LET num == parse_number(v)
    IN  IF num.none THEN Dash ELSE <<"$">> \o Fixed(num, 2, FALSE, TRUE)

format_rs_badge(v) ==
    LET num == parse_percent(v)
    IN  IF num.none THEN <<Dash, "rs-low">>
        ELSE <<Fixed(num, 0, FALSE, FALSE),
               IF Ge(num, Lit(90)) THEN "rs-elite"
               ELSE IF Ge(num, Lit(80)) THEN "rs-high"
               ELSE IF Ge(num, Lit(60)) THEN "rs-mid"
               ELSE "rs-low">>

\* format_bis with exclusive thresholds.
format_bis_exclusive(v) ==
    LET num == parse_number(v)
    IN  IF num.none THEN <<Dash, "bis-weak">>
        ELSE <<Fixed(num, 2, FALSE, FALSE),
               IF Lt(Dec(10, 10), num) THEN "bis-strong"
               ELSE IF Lt(Dec(5, 10), num) THEN "bis-moderate"
               ELSE "bis-weak">>

format_bis(v) ==
    LET num == parse_number(v)
    IN  IF num.none THEN <<Dash, "bis-weak">>
        ELSE <<Fixed(num, 2, FALSE, FALSE),
               IF Ge(num, Dec(10, 10)) THEN "bis-strong"
               ELSE IF Ge(num, Dec(5, 10)) THEN "bis-moderate"
               ELSE "bis-weak">>

\* format_rvol taking a missing value for 0.
format_rvol_zero(v) ==
    LET num == IF parse_number(v).none THEN Lit(0) ELSE parse_number(v)
    IN  <<Fixed(num, 2, FALSE, FALSE),
          IF Ge(num, Dec(15, 10)) THEN "rvol-high"
          ELSE IF Ge(num, Dec(11, 10)) THEN "rvol-mid"
          ELSE "rvol-low">>

format_rvol(v) ==
    LET num == parse_number(v)
    IN  IF num.none THEN <<Dash, "rvol-low">>
        ELSE <<Fixed(num, 2, FALSE, FALSE),
               IF Ge(num, Dec(15, 10)) THEN "rvol-high"
               ELSE IF Ge(num, Dec(11, 10)) THEN "rvol-mid"
               ELSE "rvol-low">>

format_contraction(v) ==
    LET num == parse_number(v)
    IN  IF num.none THEN <<Dash, "contr-low">>
        ELSE <<Fixed(num, 0, FALSE, FALSE) \o <<"%">>,
               IF Ge(num, Lit(70)) THEN "contr-high"
               ELSE IF Ge(num, Lit(50)) THEN "contr-mid"
               ELSE "contr-low">>

format_closing_range(v) ==
    LET num == parse_percent(v)
    IN  IF num.none THEN <<Dash, "dcr-low">>
        ELSE <<Fixed(num, 0, FALSE, FALSE) \o <<"%">>,
               IF Ge(num, Lit(80)) THEN "dcr-high"
               ELSE IF Ge(num, Lit(50)) THEN "dcr-mid"
               ELSE "dcr-low">>

format_from_open(v) ==
    LET num == parse_number(v)
    IN  IF num.none THEN <<Dash, "from-open-neutral">>
        ELSE <<Fixed(num, 1, TRUE, FALSE) \o <<"%">>,
               IF Ge(num, Lit(3)) THEN "from-open-high"
               ELSE IF Ge(num, Lit(0)) THEN "from-open-mid"
               ELSE "from-open-neg">>

-----------------------------------------------------------------------------
(* Company names.                                                          *)

\* str.replace(old, new): every occurrence, left to right, not overlapping.
RECURSIVE Replace(_, _, _)
Replace(s, old, new) ==
    IF Len(s) < Len(old) THEN s
    ELSE IF SubSeq(s, 1, Len(old)) = old
         THEN new \o Replace(SubSeq(s, Len(old) + 1, Len(s)), old, new)
         ELSE <<Head(s)>> \o Replace(Tail(s), old, new)

\* The chain of replacements, in the order they are applied.
NameReplacements ==
    <<<<<<" ", "I", "n", "c", ".">>, <<>>>>,
      <<<<" ", "I", "n", "c">>, <<>>>>,
      <<<<" ", "C", "o", "r", "p", "o", "r", "a", "t", "i", "o", "n">>, <<>>>>,
      <<<<" ", "C", "o", "r", "p", ".">>, <<>>>>,
      <<<<" ", "C", "o", "r", "p">>, <<>>>>,
      <<<<" ", "L", "t", "d">>, <<>>>>,
      <<<<" ", "p", "l", "c">>, <<>>>>,
      <<<<" ", "H", "o", "l", "d", "i", "n", "g", "s">>, <<>>>>,
      <<<<" ", "H", "o", "l", "d", "i", "n", "g">>, <<>>>>,
      <<<<" ", "G", "r", "o", "u", "p">>, <<>>>>,
      <<<<" ", "T", "e", "c", "h", "n", "o", "l", "o", "g", "y">>, <<" ", "T", "e", "c", "h">>>>,
      <<<<" ", "T", "e", "c", "h", "n", "o", "l", "o", "g", "i", "e", "s">>, <<" ", "T", "e", "c", "h">>>>>>

RECURSIVE ReplaceChain(_, _)
ReplaceChain(s, k) ==
    IF k = 0 THEN s
    ELSE Replace(ReplaceChain(s, k - 1), NameReplacements[k][1], NameReplacements[k][2])

shorten_name(name) ==
    IF Falsy(name) THEN <<>> ELSE ReplaceChain(name, Len(NameReplacements))

-----------------------------------------------------------------------------
(* Rows and the sort key.                                                  *)

\* The field names the program looks up.
Fields ==
    {"Ticker", "Name", "Price", "Daily Liquidity", "BIS", "Daily Closing Range",
     "ADR %", "Price Contraction", "RVol", "% From Open", "Composite RS", "RS Rank"}

\* row.get(col, default)
Get(row, col, default) == IF col \in DOMAIN row THEN row[col] ELSE default

col_map(sort_col) ==
    CASE sort_col = "RS" -> "Composite RS"
      [] sort_col = "DCR" -> "Daily Closing Range"
      [] sort_col = "P.Contr" -> "Price Contraction"
      [] OTHER -> sort_col

pct_cols == {"Composite RS", "Daily Closing Range", "Price Contraction", "ADR %"}

\* The value given to a row that has none in the sort column.
Sentinel == Lit(-999999)

get_sort_value(row, sort_col) ==
    LET actual_col == col_map(sort_col)
        v == Get(row, actual_col, <<>>)
    IN  IF actual_col \in pct_cols
        THEN (IF ~parse_percent(v).none THEN parse_percent(v) ELSE Sentinel)
        ELSE (IF ~parse_number(v).none THEN parse_number(v) ELSE Sentinel)

(* list.sort(key=..., reverse=...): stable; with reverse the order of the  *)
(* keys is turned around and equal keys still keep their first order.      *)
RECURSIVE Insert(_, _, _, _)
Insert(sorted, x, sort_col, reverse) ==
    IF sorted = <<>> THEN <<x>>
    ELSE LET kx == get_sort_value(x, sort_col)
             kh == get_sort_value(Head(sorted), sort_col)
             before == IF reverse THEN Lt(kh, kx) ELSE Lt(kx, kh)
         IN  IF before THEN <<x>> \o sorted
             ELSE <<Head(sorted)>> \o Insert(Tail(sorted), x, sort_col, reverse)

RECURSIVE SortRows(_, _, _)
SortRows(rs, sort_col, reverse) ==
    IF rs = <<>> THEN <<>>
    ELSE Insert(SortRows(SubSeq(rs, 1, Len(rs) - 1), sort_col, reverse), rs[Len(rs)], sort_col, reverse)

-----------------------------------------------------------------------------
(* The table body.                                                         *)

\* The ADR cell: f'{adr_num:.1f}%' if adr_num else '-'
adr_val(v) ==
    LET adr_num == parse_number(v)
    IN  IF ~adr_num.none /\ Truthy(adr_num) THEN Fixed(adr_num, 1, FALSE, FALSE) \o <<"%">> ELSE Dash

\* One <tr>: the text of every cell and the class of the coloured ones.
RenderRow(row) ==
    [ticker |-> Str(Get(row, "Ticker", <<>>)),
     rs |-> format_rs_badge(Get(row, "Composite RS", <<>>)),
     name |-> shorten_name(Get(row, "Name", <<>>)),
     price |-> format_price(Get(row, "Price", <<>>)),
     liq |-> format_liquidity(Get(row, "Daily Liquidity", <<>>)),
     bis |-> format_bis(Get(row, "BIS", <<>>)),
     dcr |-> format_closing_range(Get(row, "Daily Closing Range", <<>>)),
     adr |-> adr_val(Get(row, "ADR %", <<>>)),
     contr |-> format_contraction(Get(row, "Price Contraction", <<>>)),
     rvol |-> format_rvol(Get(row, "RVol", <<>>)),
     from_open |-> format_from_open(Get(row, "% From Open", <<>>)),
     rank |-> Str(Get(row, "RS Rank", Dash))]

generate_html(rs) == [i \in 1..Len(rs) |-> RenderRow(rs[i])]

-----------------------------------------------------------------------------
(* Files and the manifest.                                                 *)

\* A path: the directory ("scans" is site/scans, "out" the working
\* directory), the stem as a str, and the suffix without its point.
File(dir, stem, ext) == [dir |-> dir, stem |-> stem, ext |-> ext]

NoFiles == [f \in {} |-> [kind |-> "none"]]

\* open(path, 'w') and write: the file is created or replaced.
WriteFile(files, path, content) ==
    [f \in DOMAIN files \cup {path} |-> IF f = path THEN content ELSE files[f]]

\* The characters of the file names drawn here, in code point order.
CodePoints ==
    <<"-", ".", "0", "1", "2", "3", "4", "5", "6", "7", "8", "9", "N", "a", "b", "c",
      "d", "e", "f", "g", "h", "l", "n", "o", "u", "x">>
Ord(c) == CHOOSE i \in 1..Len(CodePoints) : CodePoints[i] = c

\* s < t on str: the first differing character decides, a proper prefix is less.
RECURSIVE StrLt(_, _)
StrLt(s, t) ==
    IF t = <<>> THEN FALSE
    ELSE IF s = <<>> THEN TRUE
    ELSE IF Head(s) # Head(t) THEN Ord(Head(s)) < Ord(Head(t))
    ELSE StrLt(Tail(s), Tail(t))

\* The entry of a stem that passes the test of the scan: long enough, with
\* a hyphen in the fifth and in the eighth place.
IsScanStem(filename) == Len(filename) >= 10 /\ filename[5] = "-" /\ filename[8] = "-"

ScanEntry(filename) ==
    [id |-> filename,
     date |-> SubSeq(filename, 1, 10),
     name |-> IF Len(filename) > 10 THEN SubSeq(filename, 12, Len(filename)) ELSE PyNone]

\* x['name'] or ''
NameKey(e) == IF Falsy(e.name) THEN <<>> ELSE e.name

\* The key without the name.
KeyLt_date_only(a, b) == StrLt(a.date, b.date)

\* The key (date, name or '') of one entry is less than that of the other.
KeyLt(a, b) == StrLt(a.date, b.date) \/ (a.date = b.date /\ StrLt(NameKey(a), NameKey(b)))

\* scans.sort(key=..., reverse=True): by the key turned around, stable.
RECURSIVE InsertScan(_, _)
InsertScan(sorted, x) ==
    IF sorted = <<>> THEN <<x>>
    ELSE IF KeyLt(Head(sorted), x) THEN <<x>> \o sorted
    ELSE <<Head(sorted)>> \o InsertScan(Tail(sorted), x)

RECURSIVE SortScans(_)
SortScans(es) ==
    IF es = <<>> THEN <<>>
    ELSE InsertScan(SortScans(SubSeq(es, 1, Len(es) - 1)), es[Len(es)])

\* The orders in which scans_dir.glob('*.html') may yield the files of the
\* directory: the order of a directory listing is the file system's.
Listings(files) ==
    LET html == {f \in DOMAIN files : f.dir = "scans" /\ f.ext = "html"}
    IN  {l \in [1..Cardinality(html) -> html] : \A i, j \in 1..Cardinality(html) : l[i] = l[j] => i = j}

\* The list update_manifest builds from a listing and returns.
ManifestScans(listing) ==
    LET found == SelectSeq(listing, LAMBDA f : IsScanStem(f.stem))
    IN  SortScans([i \in 1..Len(found) |-> ScanEntry(found[i].stem)])

(* The text written: the list as Python prints it, with every ' turned     *)
(* into " and every None into null, inside the strings as well as outside. *)
(* (No file name drawn here holds a quote.)                                *)
JsNull == <<"null">>
NoneWord == <<"N", "o", "n", "e">>
NullWord == <<"n", "u", "l", "l">>
Written(e) ==
    [id |-> Replace(e.id, NoneWord, NullWord),
     date |-> Replace(e.date, NoneWord, NullWord),
     name |-> IF e.name = PyNone THEN JsNull ELSE Replace(e.name, NoneWord, NullWord)]

ManifestFile == File("scans", <<"manifest">>, "js")

ManifestContent(es) == [kind |-> "manifest", body |-> [i \in 1..Len(es) |-> Written(es[i])]]

RunIdle ==
    /\ args = [exists |-> TRUE, png |-> FALSE, publish |-> FALSE, push |-> FALSE,
               date |-> PyNone, name |-> PyNone]
    /\ date_str = PyNone
    /\ html_path = File("", <<>>, "")
    /\ git = <<>>
    /\ status = "running"

\* No page is open.
PageIdle ==
    /\ tbody = <<>>
    /\ currentSort = [col |-> <<>>, asc |-> TRUE]
    /\ sortedHeaders = {}
    /\ arrows = <<>>

FmtIdle ==
    /\ value = <<>>
    /\ op = ""
    /\ result = <<>>

-----------------------------------------------------------------------------
(* The functions one at a time: a raw value is drawn, and one parser or    *)
(* formatter is applied to it.                                             *)

\* The characters of the generated raw strings: digits, point, sign,
\* thousands separator, percent sign, blank, and a character of no number.
Chars == {"0", "5", "9", ".", "-", ",", "%", " ", "x"}

\* The strings over Chars of length k.
RECURSIVE StringsOfLen(_)
StringsOfLen(k) ==
    IF k = 0 THEN {<<>>} ELSE {<<c>> \o t : c \in Chars, t \in StringsOfLen(k - 1)}

\* The values on and just under every threshold of the formatters, and the
\* document's examples.
BoundaryValues ==
    {<<"9", "0">>,
     <<"8", "9", ".", "9">>,
     <<"8", "0">>,
     <<"7", "9", ".", "9">>,
     <<"6", "0">>,
     <<"5", "9", ".", "9">>,
     <<"1", ".", "0", "0">>,
     <<"0", ".", "9", "9", "9">>,
     <<"0", ".", "5", "0">>,
     <<"0", ".", "4", "9", "9">>,
     <<"1", ".", "5">>,
     <<"1", ".", "4", "9">>,
     <<"1", ".", "1">>,
     <<"1", ".", "0", "9">>,
     <<"7", "0">>,
     <<"6", "9", ".", "9">>,
     <<"5", "0">>,
     <<"4", "9", ".", "9">>,
     <<"3">>,
     <<"2", ".", "9", "9">>,
     <<"0">>,
     <<"-", "0", ".", "0", "1">>,
     <<"1", ".", "2", "5">>,
     <<"1", ",", "2", "3", "4", ".", "5">>,
     <<"1", "5", "0", "0", "0", "0", "0", "0", "0", "0">>,
     <<"9", "9", "9", "9", "9", "9", "9", "9", "9">>,
     <<"8", "7", "%">>,
     <<" ", "5", "0", " ">>}

RawValues == {PyNone} \cup UNION {StringsOfLen(k) : k \in 0..MaxLen} \cup BoundaryValues

TableIdle ==
    /\ csv = <<>>
    /\ header = {}
    /\ rows = <<>>
    /\ sortArg = [sort |-> "", order |-> ""]
    /\ cells = <<>>
    /\ pc = "idle"
    /\ steps = <<>>
    /\ printed = <<>>

InitFmt ==
    /\ PageIdle
    /\ value \in RawValues
    /\ op = ""
    /\ result = <<>>
    /\ TableIdle
    /\ RunIdle
    /\ fs = NoFiles
    /\ scans = <<>>

Apply(name, r) ==
    /\ op = ""
    /\ op' = name
    /\ result' = r
    /\ UNCHANGED <<value, tableVars, runVars, pageVars, pc, steps, printed, fs, scans>>

ParsePercent == Apply("parse_percent", parse_percent(value))
ParseNumber == Apply("parse_number", parse_number(value))
FormatLiquidity == Apply("format_liquidity", format_liquidity(value))
FormatPrice == Apply("format_price", format_price(value))
FormatRsBadge == Apply("format_rs_badge", format_rs_badge(value))
FormatBis == Apply("format_bis", format_bis(value))
FormatRvol == Apply("format_rvol", format_rvol(value))
FormatContraction == Apply("format_contraction", format_contraction(value))
FormatClosingRange == Apply("format_closing_range", format_closing_range(value))
FormatFromOpen == Apply("format_from_open", format_from_open(value))

NextFmt ==
    \/ ParsePercent
    \/ ParseNumber
    \/ FormatLiquidity
    \/ FormatPrice
    \/ FormatRsBadge
    \/ FormatBis
    \/ FormatRvol
    \/ FormatContraction
    \/ FormatClosingRange
    \/ FormatFromOpen

SpecFmt == InitFmt /\ [][NextFmt]_vars

-----------------------------------------------------------------------------
(* main, from the loading of the file to the rendered table.               *)

\* The raw cell texts of the generated files: empty, numbers under and over
\* the thresholds, a number with a percent sign, zero, and no number.
TableValues ==
    {<<>>, <<"5">>, <<"7", "5">>, <<"7", "5", "%">>, <<"0">>, <<"x">>}

\* The header rows of the generated files: at most one of the looked-up
\* columns is present; every column is read, sorted and rendered on its own.
Headers == {{}} \cup {{f} : f \in Fields}

\* The data lines under a header: up to MaxRows rows of that header's fields.
CsvFiles(h) == UNION {[1..k -> [h -> TableValues]] : k \in 0..MaxRows}

\* --sort takes any text: a field name, or a name of the alias table.
SortCols == Fields \cup {"RS", "DCR", "P.Contr"}

SortArgs == [sort : SortCols, order : {"asc", "desc"}]

InitTable ==
    /\ PageIdle
    /\ FmtIdle
    /\ header \in Headers
    /\ csv \in CsvFiles(header)
    /\ rows = <<>>
    /\ sortArg \in SortArgs
    /\ cells = <<>>
    /\ pc = "load"
    /\ steps = <<>>
    /\ printed = <<>>
    /\ RunIdle
    /\ fs = NoFiles
    /\ scans = <<>>

\* rows = load_csv(args.csv_file): every data line becomes a row.
Load ==
    /\ pc = "load"
    /\ rows' = csv
    /\ steps' = Append(steps, "load")
    /\ printed' = printed \o <<"Loading", "Found">>
    /\ pc' = "sort"
    /\ UNCHANGED <<fmtVars, csv, header, sortArg, cells, runVars, pageVars, fs, scans>>

\* reverse = args.order == 'desc'; rows.sort(key=get_sort_value, reverse=reverse)
Sort ==
    /\ pc = "sort"
    /\ rows' = SortRows(rows, sortArg.sort, sortArg.order = "desc")
    /\ steps' = Append(steps, "sort")
    /\ printed' = Append(printed, "Sorted by")
    /\ pc' = "render"
    /\ UNCHANGED <<fmtVars, csv, header, sortArg, cells, runVars, pageVars, fs, scans>>

\* html = generate_html(rows, ...)
Render ==
    /\ pc = "render"
    /\ cells' = generate_html(rows)
    /\ steps' = Append(steps, "render")
    /\ pc' = "path"
    /\ UNCHANGED <<fmtVars, csv, header, rows, sortArg, printed, runVars, pageVars, fs, scans>>

NextTable ==
    \/ Load
    \/ Sort
    \/ Render

SpecTable == InitTable /\ [][NextTable]_vars

-----------------------------------------------------------------------------
(* update_manifest on its own, over the directories it may find.           *)

\* Most files of a generated scans directory.
MaxFiles == 3

\* The stems of the generated .html files: two dates, unnamed and named
\* scans, stems that are no scan, and stems that only look like one.
Stems ==
    {<<"2", "0", "2", "4", "-", "0", "1", "-", "0", "1">>,
     <<"2", "0", "2", "4", "-", "0", "1", "-", "0", "2">>,
     <<"2", "0", "2", "4", "-", "0", "1", "-", "0", "1", "-", "a">>,
     <<"2", "0", "2", "4", "-", "0", "1", "-", "0", "1", "-", "b">>,
     <<"2", "0", "2", "4", "-", "0", "1", "-", "0", "2", "-", "a">>,
     <<"a", "b", "c", "d", "-", "e", "f", "-", "g", "h">>,
     <<"2", "0", "2", "4", "-", "0", "1", "-", "0", "1", "x">>,
     <<"2", "0", "2", "4", "-", "0", "1", "0", "1", "a">>,
     <<"i", "n", "d", "e", "x">>}

\* The files a scans directory may hold: pages, an image, an old manifest.
DirFiles ==
    {File("scans", st, "html") : st \in Stems}
        \cup {File("scans", <<"2", "0", "2", "4", "-", "0", "1", "-", "0", "1">>, "png"), ManifestFile}

Directories ==
    {[f \in d |-> [kind |-> "old"]] : d \in {x \in SUBSET DirFiles : Cardinality(x) <= MaxFiles}}

InitManifest ==
    /\ PageIdle
    /\ FmtIdle
    /\ TableIdle
    /\ RunIdle
    /\ fs \in Directories
    /\ scans = <<>>

\* scans = update_manifest(site_dir)
UpdateManifest ==
    /\ pc = "idle"
    /\ \E listing \in Listings(fs) :
        /\ scans' = ManifestScans(listing)
        /\ fs' = WriteFile(fs, ManifestFile, ManifestContent(ManifestScans(listing)))
    /\ pc' = "returned"
    /\ UNCHANGED <<fmtVars, tableVars, runVars, pageVars, steps, printed>>

NextManifest == UpdateManifest

SpecManifest == InitManifest /\ [][NextManifest]_vars

-----------------------------------------------------------------------------
(* main, the whole run.                                                    *)

\* Split at the hyphens: the parts of s between them.
RECURSIVE SplitHyphen(_, _)
SplitHyphen(s, part) ==
    IF s = <<>> THEN <<part>>
    ELSE IF Head(s) = "-" THEN <<part>> \o SplitHyphen(Tail(s), <<>>)
    ELSE SplitHyphen(Tail(s), Append(part, Head(s)))

AllDigits(s) == \A i \in 1..Len(s) : IsDigit(s[i])

DaysIn(y, m) ==
    IF m = 2 THEN (IF y % 4 = 0 /\ (y % 100 # 0 \/ y % 400 = 0) THEN 29 ELSE 28)
    ELSE IF m \in {4, 6, 9, 11} THEN 30 ELSE 31

\* datetime.strptime(s, '%Y-%m-%d') returns: four digits, a month and a day
\* of one or two digits that name a day of the calendar.  Otherwise it
\* raises ValueError.
StrptimeOk(s) ==
    LET parts == SplitHyphen(s, <<>>)
    IN  /\ Len(parts) = 3
        /\ Len(parts[1]) = 4 /\ AllDigits(parts[1])
        /\ Len(parts[2]) \in {1, 2} /\ AllDigits(parts[2])
        /\ Len(parts[3]) \in {1, 2} /\ AllDigits(parts[3])
        /\ DigitsToNat(parts[1]) >= 1
        /\ DigitsToNat(parts[2]) \in 1..12
        /\ DigitsToNat(parts[3]) \in 1..DaysIn(DigitsToNat(parts[1]), DigitsToNat(parts[2]))

\* --output is left at its default.
OutputStem == <<"momentum_scan">>

\* The days a run may happen on.
Today == {<<"2", "0", "2", "4", "-", "0", "1", "-", "0", "1">>, <<"2", "0", "2", "4", "-", "0", "1", "-", "0", "2">>}

\* --date and --name take any text; None when the option is not given.
DateArgs == {PyNone, <<"2", "0", "2", "4", "-", "0", "1", "-", "0", "1">>, <<"2", "0", "2", "4", "-", "0", "1", "-", "0", "2">>, <<"x">>}
NameArgs == {PyNone, <<"a">>}

ArgSets ==
    [exists : BOOLEAN, png : BOOLEAN, publish : BOOLEAN, push : BOOLEAN,
     date : DateArgs, name : NameArgs]

\* The scans directory before the run: empty, or holding an earlier scan.
RunDirectories == {NoFiles, [f \in {File("scans", <<"2", "0", "2", "4", "-", "0", "1", "-", "0", "2">>, "html")} |-> [kind |-> "old"]]}

InitRun ==
    /\ PageIdle
    /\ FmtIdle
    /\ header = {"BIS"}
    /\ csv = <<[BIS |-> <<"5">>], [BIS |-> <<>>]>>
    /\ rows = <<>>
    /\ sortArg \in [sort : {"BIS"}, order : {"asc", "desc"}]
    /\ cells = <<>>
    /\ pc = "start"
    /\ steps = <<>>
    /\ printed = <<>>
    /\ args \in ArgSets
    /\ fs \in RunDirectories
    /\ scans = <<>>
    /\ date_str = PyNone
    /\ html_path = File("", <<>>, "")
    /\ git = <<>>
    /\ status = "running"

\* CheckInput without the exit.
CheckInput_no_exit ==
    /\ pc = "start"
    /\ printed' = IF args.exists THEN printed ELSE Append(printed, "File not found")
    /\ pc' = "load"
    /\ UNCHANGED <<fmtVars, tableVars, runVars, pageVars, steps, fs, scans>>

\* if not os.path.exists(args.csv_file): print(...); sys.exit(1)
CheckInput ==
    /\ pc = "start"
    /\ IF args.exists
       THEN /\ pc' = "load"
            /\ UNCHANGED <<printed, status>>
       ELSE /\ printed' = Append(printed, "File not found")
            /\ status' = "exit 1"
            /\ pc' = "exited"
    /\ UNCHANGED <<fmtVars, tableVars, pageVars, args, date_str, html_path, git, steps, fs, scans>>

\* Where main goes after the HTML is written, after the manifest, after the
\* image: the tests of args.publish, args.png and args.push in turn.
AfterPng(a) == IF a.push THEN "push" ELSE "finish"
AfterManifest(a) == IF a.png THEN "png" ELSE AfterPng(a)
\* The image before the manifest.
AfterWrite_png_first(a) == IF a.png THEN "png" ELSE IF a.publish THEN "manifest" ELSE AfterPng(a)
AfterWrite(a) == IF a.publish THEN "manifest" ELSE AfterManifest(a)

\* The output path is determined and the HTML written to it.
WriteHtml ==
    /\ pc = "path"
    /\ \E today \in Today :
        LET ds == IF ~Falsy(args.date) THEN args.date ELSE today
            scan_id == IF ~Falsy(args.name) THEN ds \o <<"-">> \o args.name ELSE ds
            path == IF args.publish THEN File("scans", scan_id, "html")
                    ELSE File("out", OutputStem, "html")
        IN  /\ date_str' = IF args.publish THEN ds ELSE date_str
            /\ html_path' = path
            /\ fs' = WriteFile(fs, path, [kind |-> "html", body |-> cells])
    /\ steps' = Append(steps, "write")
    /\ printed' = Append(printed, "HTML saved")
    /\ pc' = AfterWrite(args)
    /\ UNCHANGED <<fmtVars, tableVars, pageVars, args, git, status, scans>>

\* if args.publish: dates = update_manifest(site_dir)
PublishManifest ==
    /\ pc = "manifest"
    /\ \E listing \in Listings(fs) :
        /\ scans' = ManifestScans(listing)
        /\ fs' = WriteFile(fs, ManifestFile, ManifestContent(ManifestScans(listing)))
    /\ steps' = Append(steps, "manifest")
    /\ printed' = printed \o <<"Manifest updated", "Published">>
    /\ pc' = AfterManifest(args)
    /\ UNCHANGED <<fmtVars, tableVars, runVars, pageVars>>

(* generate_png: the import may fail; the browser may fail to start, the   *)
(* page to load or the screenshot to be taken; closing the browser may     *)
(* fail after the image is on disk; or all goes well.                      *)
PngOutcomes == {"no playwright", "failed", "failed after screenshot", "ok"}

PngPath == IF args.publish THEN File(html_path.dir, html_path.stem, "png")
           ELSE File("out", OutputStem, "png")

PngStep(outcome) ==
    /\ pc = "png"
    /\ fs' = IF outcome \in {"failed after screenshot", "ok"}
             THEN WriteFile(fs, PngPath, [kind |-> "png", body |-> <<>>])
             ELSE fs
    /\ printed' = printed \o <<"Generating PNG">> \o
            (CASE outcome = "no playwright" -> <<"PNG generation requires playwright">>
               [] outcome \in {"failed", "failed after screenshot"} -> <<"PNG generation failed">>
               [] outcome = "ok" -> <<"PNG saved">>)
    /\ steps' = Append(steps, "screenshot")
    /\ pc' = AfterPng(args)
    /\ UNCHANGED <<fmtVars, tableVars, runVars, pageVars, scans>>

\* generate_png without its except clauses.
GeneratePng_uncaught ==
    \E outcome \in PngOutcomes :
        IF outcome = "ok" THEN PngStep(outcome)
        ELSE /\ pc = "png"
             /\ status' = "crash"
             /\ pc' = "exited"
             /\ printed' = Append(printed, "Generating PNG")
             /\ steps' = Append(steps, "screenshot")
             /\ UNCHANGED <<fmtVars, tableVars, pageVars, args, date_str, html_path, git, fs, scans>>

\* if args.png: if generate_png(abs_html, str(png_path)): print("PNG saved")
GeneratePng == \E outcome \in PngOutcomes : PngStep(outcome)

\* The uncaught exception ends the process with a traceback.
Crash ==
    /\ status' = "crash"
    /\ pc' = "exited"

\* PushCheck without the test of args.publish.
PushCheck_any ==
    /\ pc = "push"
    /\ printed' = Append(printed, "Pushing")
    /\ steps' = Append(steps, "push")
    /\ pc' = "git add"
    /\ UNCHANGED <<fmtVars, tableVars, runVars, pageVars, fs, scans>>

\* if args.push: the test of args.publish, then the commit message.
PushCheck ==
    /\ pc = "push"
    /\ IF ~args.publish
       THEN /\ printed' = Append(printed, "Warning: --push requires --publish")
            /\ pc' = "finish"
            /\ UNCHANGED <<steps, status>>
       ELSE /\ printed' = Append(printed, "Pushing")
            /\ steps' = Append(steps, "push")
            /\ IF StrptimeOk(date_str)
               THEN pc' = "git add" /\ UNCHANGED status
               ELSE Crash
    /\ UNCHANGED <<fmtVars, tableVars, pageVars, args, date_str, html_path, git, fs, scans>>

(* subprocess.run(['git', cmd, ...], check=True): the command runs and     *)
(* succeeds; it runs and fails (CalledProcessError, caught); or there is   *)
(* no git executable (FileNotFoundError, which nothing catches).          *)
GitOutcomes == {"ok", "failed", "no git"}

GitRun(cmd, next) ==
    /\ pc = "git " \o cmd
    /\ \E outcome \in GitOutcomes :
        CASE outcome = "ok" ->
                /\ git' = Append(git, cmd)
                /\ pc' = next
                /\ printed' = IF next = "finish" THEN Append(printed, "Pushed") ELSE printed
                /\ UNCHANGED status
          [] outcome = "failed" ->
                /\ git' = Append(git, cmd)
                /\ printed' = Append(printed, "Git error")
                /\ pc' = "finish"
                /\ UNCHANGED status
          [] outcome = "no git" ->
                /\ Crash
                /\ UNCHANGED <<git, printed>>
    /\ UNCHANGED <<fmtVars, tableVars, pageVars, args, date_str, html_path, steps, fs, scans>>

GitAdd == GitRun("add", "git commit")
GitCommit == GitRun("commit", "git push")
GitPush == GitRun("push", "finish")

\* if not args.publish: print("Done!"); main returns.
Finish ==
    /\ pc = "finish"
    /\ printed' = IF ~args.publish THEN Append(printed, "Done") ELSE printed
    /\ status' = "exit 0"
    /\ pc' = "exited"
    /\ UNCHANGED <<fmtVars, tableVars, pageVars, args, date_str, html_path, git, steps, fs, scans>>

NextRun ==
    \/ CheckInput
    \/ Load
    \/ Sort
    \/ Render
    \/ WriteHtml
    \/ PublishManifest
    \/ GeneratePng
    \/ PushCheck
    \/ GitAdd
    \/ GitCommit
    \/ GitPush
    \/ Finish

SpecRun == InitRun /\ [][NextRun]_vars

-----------------------------------------------------------------------------
(* Publish runs one after the other on the same scans directory.           *)

\* --name, with a name that holds the word None.
PublishNames == NameArgs \cup {<<"N", "o", "n", "e">>}

\* The arguments of a publish run: the input exists, no image, no push.
PublishArgs ==
    [exists : {TRUE}, png : {FALSE}, publish : {TRUE}, push : {FALSE},
     date : DateArgs, name : PublishNames]

\* The pages in the scans directory.
Pages == {f \in DOMAIN fs : f.dir = "scans" /\ f.ext = "html"}

\* The first run starts on an empty scans directory.
InitPublish ==
    /\ PageIdle
    /\ FmtIdle
    /\ header = {"BIS"}
    /\ csv = <<[BIS |-> <<"5">>]>>
    /\ rows = <<>>
    /\ sortArg = [sort |-> "BIS", order |-> "desc"]
    /\ cells = <<>>
    /\ pc = "start"
    /\ steps = <<>>
    /\ printed = <<>>
    /\ args \in PublishArgs
    /\ fs = NoFiles
    /\ scans = <<>>
    /\ date_str = PyNone
    /\ html_path = File("", <<>>, "")
    /\ git = <<>>
    /\ status = "running"

\* The program is run again, with other arguments, on what the last run left.
Invoke ==
    /\ pc = "exited"
    /\ Cardinality(Pages) < MaxFiles
    /\ args' \in PublishArgs
    /\ rows' = <<>>
    /\ cells' = <<>>
    /\ steps' = <<>>
    /\ printed' = <<>>
    /\ scans' = <<>>
    /\ date_str' = PyNone
    /\ html_path' = File("", <<>>, "")
    /\ git' = <<>>
    /\ status' = "running"
    /\ pc' = "start"
    /\ UNCHANGED <<fmtVars, pageVars, csv, header, sortArg, fs>>

\* Between two runs a page is taken out of the scans directory.
RemovePage ==
    /\ pc = "exited"
    /\ \E f \in Pages : fs' = [g \in DOMAIN fs \ {f} |-> fs[g]]
    /\ UNCHANGED <<fmtVars, tableVars, runVars, pageVars, pc, steps, printed, scans>>

NextPublish ==
    \/ CheckInput
    \/ Load
    \/ Sort
    \/ Render
    \/ WriteHtml
    \/ PublishManifest
    \/ Finish
    \/ Invoke
    \/ RemovePage

SpecPublish == InitPublish /\ [][NextPublish]_vars

-----------------------------------------------------------------------------
(* shorten_name on its own, over names made of words.                      *)

\* Most words of a generated company name.
MaxWords == 3

\* Words that are no legal-entity suffix, the suffixes, and the two words
\* that are abbreviated.
BaseWords ==
    {<<"E", "x", "a", "m", "p", "l", "e">>, <<"B", "e", "t", "a">>,
     <<"I", "n", "c", "o", "r", "p", "o", "r", "a", "t", "e", "d">>}
SuffixWords ==
    {<<"I", "n", "c", ".">>, <<"I", "n", "c">>,
     <<"C", "o", "r", "p", "o", "r", "a", "t", "i", "o", "n">>,
     <<"C", "o", "r", "p", ".">>, <<"C", "o", "r", "p">>, <<"L", "t", "d">>,
     <<"p", "l", "c">>, <<"H", "o", "l", "d", "i", "n", "g", "s">>,
     <<"H", "o", "l", "d", "i", "n", "g">>, <<"G", "r", "o", "u", "p">>}
TechWords ==
    {<<"T", "e", "c", "h", "n", "o", "l", "o", "g", "y">>,
     <<"T", "e", "c", "h", "n", "o", "l", "o", "g", "i", "e", "s">>}

RECURSIVE JoinWords(_)
JoinWords(ws) ==
    IF ws = <<>> THEN <<>>
    ELSE IF Len(ws) = 1 THEN ws[1]
    ELSE ws[1] \o <<" ">> \o JoinWords(Tail(ws))

\* The values of the Name field: none, empty, or words with single spaces.
Names ==
    {PyNone, <<>>}
        \cup {JoinWords(ws) : ws \in UNION {[1..k -> BaseWords \cup SuffixWords \cup TechWords] : k \in 1..MaxWords}}

InitNames ==
    /\ PageIdle
    /\ value \in Names
    /\ op = ""
    /\ result = <<>>
    /\ TableIdle
    /\ RunIdle
    /\ fs = NoFiles
    /\ scans = <<>>

ShortenName == Apply("shorten_name", shorten_name(value))

NextNames == ShortenName

SpecNames == InitNames /\ [][NextNames]_vars

-----------------------------------------------------------------------------
(* The page in the browser: the embedded script.                           *)

\* Most rows of a generated page.
MaxPageRows == 3

\* The cells of a <tr> in the order of the columns, data-col 0 to 11.
Columns ==
    <<"ticker", "rs", "name", "price", "liq", "bis", "dcr", "adr", "contr", "rvol",
      "from_open", "rank">>
ColIndexes == 0..(Len(Columns) - 1)

\* The column a field of the input is rendered in.
ColumnOf(f) ==
    CASE f = "Ticker" -> 0 [] f = "Composite RS" -> 1 [] f = "Name" -> 2
      [] f = "Price" -> 3 [] f = "Daily Liquidity" -> 4 [] f = "BIS" -> 5
      [] f = "Daily Closing Range" -> 6 [] f = "ADR %" -> 7
      [] f = "Price Contraction" -> 8 [] f = "RVol" -> 9
      [] f = "% From Open" -> 10 [] f = "RS Rank" -> 11

\* header.dataset.type, from the data-type attribute of every <th>.
DataType(colIndex) ==
    CASE colIndex \in {0, 2} -> "string"
      [] colIndex \in {1, 6, 7, 8} -> "percent"
      [] OTHER -> "number"

\* tr.cells[colIndex].textContent: the text of the cell, without its class.
textContent(tr, colIndex) ==
    LET c == tr[Columns[colIndex + 1]]
    IN  IF Columns[colIndex + 1] \in {"rs", "bis", "dcr", "contr", "rvol", "from_open"} THEN c[1] ELSE c

\* What parseValue returns for '-' and for the empty text.
null == [none |-> TRUE, err |-> FALSE, neg |-> FALSE, n |-> 0, d |-> 1]

\* The number that is no number.
NaN == [none |-> FALSE, err |-> TRUE, neg |-> FALSE, n |-> 0, d |-> 1]

RECURSIVE DigitPrefix(_)
DigitPrefix(s) ==
    IF s # <<>> /\ IsDigit(Head(s)) THEN <<Head(s)>> \o DigitPrefix(Tail(s)) ELSE <<>>

(* parseFloat(s): leading whitespace is skipped, then the longest prefix   *)
(* that is a decimal literal is read (a sign, digits, a point, digits) and *)
(* whatever follows is ignored; NaN when no digit is found.  (Exponents    *)
(* and Infinity need letters that the texts drawn here do not contain.)    *)
parseFloat(s) ==
    LET t == LStrip(s)
        signed == t # <<>> /\ Head(t) \in {"+", "-"}
        body == IF signed THEN Tail(t) ELSE t
        ipart == DigitPrefix(body)
        rest == SubSeq(body, Len(ipart) + 1, Len(body))
        fpart == IF rest # <<>> /\ Head(rest) = "." THEN DigitPrefix(Tail(rest)) ELSE <<>>
    IN  IF ipart \o fpart = <<>> THEN NaN
        ELSE Float(signed /\ Head(t) = "-", DigitsToNat(ipart \o fpart), Pow10(Len(fpart)))

\* text.replace(/[...]/g, ''): every character of the class goes.
RemoveAll(s, class) == SelectSeq(s, LAMBDA x : x \notin class)

\* text.includes(c)
Includes(s, c) == \E i \in 1..Len(s) : s[i] = c

\* Without the scaling by the suffix.
Scaled_none(x, text) == x

\* x * 1000, x * 1 and x * 0.001; NaN stays NaN.
Scaled(x, text) ==
    IF x.err THEN NaN
    ELSE IF Includes(text, "B") THEN Float(x.neg, x.n * 1000, x.d)
    ELSE IF Includes(text, "M") THEN x
    ELSE IF Includes(text, "K") THEN Float(x.neg, x.n, x.d * 1000)
    ELSE x

UpperChars ==
    <<"A", "B", "C", "D", "E", "F", "G", "H", "I", "J", "K", "L", "M", "N", "O", "P",
      "Q", "R", "S", "T", "U", "V", "W", "X", "Y", "Z">>
LowerChars ==
    <<"a", "b", "c", "d", "e", "f", "g", "h", "i", "j", "k", "l", "m", "n", "o", "p",
      "q", "r", "s", "t", "u", "v", "w", "x", "y", "z">>

\* text.toLowerCase()
toLowerCase(s) ==
    [i \in 1..Len(s) |->
        IF \E k \in 1..Len(UpperChars) : UpperChars[k] = s[i]
        THEN LowerChars[CHOOSE k \in 1..Len(UpperChars) : UpperChars[k] = s[i]]
        ELSE s[i]]

\* parseValue returns null: the trimmed text is '-' or empty.
IsNull(text) == Strip(text) = Dash \/ Strip(text) = <<>>

\* parseValue(text, type): null, a number (NaN too) or the lower-case text.
parseValue(text, type) ==
    LET t == Strip(text)
    IN  IF t = Dash \/ t = <<>> THEN null
        ELSE IF type = "number"
             THEN Scaled(parseFloat(RemoveAll(RemoveAll(t, {"$", ",", "B", "M", "K"}), {"(", ")"})), t)
        ELSE IF type = "percent" THEN parseFloat(RemoveAll(t, {"%", "+"}))
        ELSE toLowerCase(t)

\* The order of localeCompare on the characters of the lower-case texts
\* drawn here: the space, the digits, the letters.
Collation == <<" ">> \o DigitChars \o LowerChars
Weight(c) == CHOOSE i \in 1..Len(Collation) : Collation[i] = c

\* s.localeCompare(t) < 0
RECURSIVE LocaleLt(_, _)
LocaleLt(s, t) ==
    IF t = <<>> THEN FALSE
    ELSE IF s = <<>> THEN TRUE
    ELSE IF Head(s) # Head(t) THEN Weight(Head(s)) < Weight(Head(t))
    ELSE LocaleLt(Tail(s), Tail(t))

(* The comparator of rows.sort, as the sign of what it returns: null goes  *)
(* after everything; a NaN result (a difference with NaN in it) is taken   *)
(* by the sort as 0.                                                       *)
Compare(a, b, colIndex, type, asc) ==
    LET aText == textContent(a, colIndex)
        bText == textContent(b, colIndex)
        aVal == parseValue(aText, type)
        bVal == parseValue(bText, type)
    IN  IF IsNull(aText) /\ IsNull(bText) THEN 0
        ELSE IF IsNull(aText) THEN 1
        ELSE IF IsNull(bText) THEN -1
        ELSE IF type = "string"
             THEN (IF LocaleLt(aVal, bVal) THEN (IF asc THEN -1 ELSE 1)
                   ELSE IF LocaleLt(bVal, aVal) THEN (IF asc THEN 1 ELSE -1)
                   ELSE 0)
        ELSE IF aVal.err \/ bVal.err THEN 0
        ELSE IF Lt(aVal, bVal) THEN (IF asc THEN -1 ELSE 1)
        ELSE IF Lt(bVal, aVal) THEN (IF asc THEN 1 ELSE -1)
        ELSE 0

\* What the comparator returns for every two rows of the table.
Comparisons(trs, colIndex, type, asc) ==
    [i \in 1..Len(trs), j \in 1..Len(trs) |-> Compare(trs[i], trs[j], colIndex, type, asc)]

(* Array.prototype.sort is stable: a row comes after the rows that compare *)
(* as less than it and after the rows before it that compare as equal.     *)
StableSort(trs, c) ==
    [r \in 1..Len(trs) |->
        trs[CHOOSE i \in 1..Len(trs) :
                Cardinality({j \in 1..Len(trs) : c[j, i] < 0 \/ (c[j, i] = 0 /\ j < i)}) = r - 1]]

(* The comparator is consistent on the rows: what compares as equal forms  *)
(* classes, and the classes are in a strict order.  It is not when a cell  *)
(* parses to NaN between two cells with different numbers.                 *)
Consistent(trs, c) ==
    \A i, j, k \in 1..Len(trs) :
        /\ c[i, j] = -c[j, i]
        /\ (c[i, j] = 0 /\ c[j, k] = 0) => c[i, k] = 0
        /\ (c[i, j] < 0 /\ c[j, k] <= 0) => c[i, k] < 0

Rearranged(trs) ==
    {[i \in 1..Len(trs) |-> trs[p[i]]] :
        p \in {q \in [1..Len(trs) -> 1..Len(trs)] : \A i, j \in 1..Len(trs) : q[i] = q[j] => i = j}}

(* rows.sort(comparator): the stable order when the comparator is          *)
(* consistent; otherwise the order is the engine's own, any arrangement    *)
(* of the rows.                                                            *)
SortOutcomes(trs, colIndex, type, asc) ==
    UNION {IF Consistent(trs, c) THEN {StableSort(trs, c)} ELSE Rearranged(trs) :
            c \in {Comparisons(trs, colIndex, type, asc)}}

\* The raw cell texts of the generated pages, field by field.
PageValues(f) ==
    CASE f = "Ticker" -> {<<>>, <<"a">>, <<"B">>, <<"c">>}
      [] f = "Name" -> {<<>>, <<"b">>, <<"A", " ", "I", "n", "c">>, <<"c">>}
      [] f = "Daily Liquidity" ->
            {<<"5", "0", "0", "0", "0", "0", "0">>,
             <<"9", "9", "9", "9", "9", "9", "9", "9", "9">>,
             <<"1", "0", "0", "0", "0", "0", "0", "0", "0", "0">>,
             <<"1", "5", "0", "0", "0", "0", "0", "0", "0", "0">>}
      [] f = "Price" -> {<<>>, <<"5">>, <<"1", ",", "2", "3", "4", ".", "5">>, <<"-", "5">>}
      [] f = "ADR %" -> {<<>>, <<"0">>, <<"-", "1">>, <<"0", ".", "5">>}
      [] f = "% From Open" -> {<<>>, <<"-", "0", ".", "3">>, <<"0">>, <<"3">>}
      [] f = "RS Rank" -> {<<>>, <<"3">>, <<"5">>, <<"x">>}
      [] f = "Price Contraction" -> {<<>>, <<"7", "5", "%">>, <<"7", "5">>, <<"5">>}
      [] OTHER -> {<<>>, <<"0", ".", "5">>, <<"8", "7">>, <<"8", "7", "%">>}

\* The pages generated: one column of the input is filled in.
PageFiles(h) == UNION {[1..k -> [h -> UNION {PageValues(f) : f \in h}]] : k \in 0..MaxPageRows}

\* The headers clicked on: the filled column and the first one.
ClickCols == {ColumnOf(f) : f \in header} \cup {0}

(* DOMContentLoaded on a page that main wrote with the default --sort and  *)
(* --order: the rows are as generate_html rendered them, nothing is marked.*)
InitPage ==
    /\ FmtIdle
    /\ RunIdle
    /\ header \in {{f} : f \in Fields}
    /\ csv \in PageFiles(header)
    /\ sortArg = [sort |-> "BIS", order |-> "desc"]
    /\ rows = SortRows(csv, sortArg.sort, TRUE)
    /\ cells = generate_html(rows)
    /\ pc = "page"
    /\ steps = <<>>
    /\ printed = <<>>
    /\ fs = NoFiles
    /\ scans = <<>>
    /\ tbody = cells
    /\ currentSort = [col |-> <<>>, asc |-> TRUE]
    /\ sortedHeaders = {}
    /\ arrows = [i \in ColIndexes |-> "updown"]

\* sortTable(colIndex, type), the whole handler of a click on a header.
sortTable(colIndex, type) ==
    /\ pc = "page"
    /\ LET asc == IF currentSort.col = <<colIndex>> THEN ~currentSort.asc ELSE FALSE
       IN  /\ tbody' \in SortOutcomes(tbody, colIndex, type, asc)
           /\ sortedHeaders' = (sortedHeaders \ ColIndexes) \cup {colIndex}
           /\ arrows' = [i \in ColIndexes |->
                            IF i = colIndex THEN (IF asc THEN "up" ELSE "down") ELSE "updown"]
           /\ currentSort' = [col |-> <<colIndex>>, asc |-> asc]
    /\ UNCHANGED <<fmtVars, tableVars, runVars, pc, steps, printed, fs, scans>>

\* header.addEventListener('click', ...): sortTable(index, header.dataset.type || 'string')
HeaderClick == \E index \in ClickCols : sortTable(index, DataType(index))

NextPage == HeaderClick

SpecPage == InitPage /\ [][NextPage]_vars

-----------------------------------------------------------------------------
(* What the claims say, stated apart from the code.                        *)

\* Missing, empty or whitespace-only.
Blank(v) == v = PyNone \/ \A i \in 1..Len(v) : v[i] = " "

\* The string without the characters of drop and without surrounding blanks.
Cleaned(v, drop) == Strip(SelectSeq(v, LAMBDA c : c \notin drop))

\* An optional sign, then digits with at most one point and at least one digit.
IsNumeral(t) ==
    LET from == IF t # <<>> /\ t[1] \in {"+", "-"} THEN 2 ELSE 1
        dots == {i \in from..Len(t) : t[i] = "."}
        digs == {i \in from..Len(t) : IsDigit(t[i])}
    IN  /\ digs # {}
        /\ Cardinality(dots) <= 1
        /\ dots \cup digs = from..Len(t)

\* The number a numeral denotes: every digit times the weight of its place.
RECURSIVE PlaceSum(_, _)
PlaceSum(t, digs) ==
    IF digs = {} THEN 0
    ELSE LET i == CHOOSE x \in digs : TRUE
         IN  DigitVal(t[i]) * Pow10(Cardinality({j \in digs : j > i})) + PlaceSum(t, digs \ {i})

NumeralValue(t) ==
    LET digs == {i \in 1..Len(t) : IsDigit(t[i])}
        after == {i \in digs : \E j \in 1..i : t[j] = "."}
    IN  Float(t[1] = "-", PlaceSum(t, digs), Pow10(Cardinality(after)))

Parsers == {"parse_number", "parse_percent"}
Dropped(name) == IF name = "parse_percent" THEN {",", "%"} ELSE {","}
Reparse(name, t) == IF name = "parse_percent" THEN parse_percent(t) ELSE parse_number(t)

Buckets(name) ==
    CASE name = "format_rs_badge" ->
            <<<<Lit(90), "rs-elite">>, <<Lit(80), "rs-high">>, <<Lit(60), "rs-mid">>, <<Lit(0), "rs-low">>>>
      [] name = "format_bis" ->
            <<<<Dec(100, 100), "bis-strong">>, <<Dec(50, 100), "bis-moderate">>, <<Lit(0), "bis-weak">>>>
      [] name = "format_rvol" ->
            <<<<Dec(15, 10), "rvol-high">>, <<Dec(11, 10), "rvol-mid">>, <<Lit(0), "rvol-low">>>>
      [] name = "format_contraction" ->
            <<<<Lit(70), "contr-high">>, <<Lit(50), "contr-mid">>, <<Lit(0), "contr-low">>>>
      [] name = "format_closing_range" ->
            <<<<Lit(80), "dcr-high">>, <<Lit(50), "dcr-mid">>, <<Lit(0), "dcr-low">>>>
      [] name = "format_from_open" ->
            <<<<Lit(3), "from-open-high">>, <<Lit(0), "from-open-mid">>, <<Lit(0), "from-open-neg">>>>

CategoryFormatters ==
    {"format_rs_badge", "format_bis", "format_rvol", "format_contraction",
     "format_closing_range", "format_from_open"}

\* The category of the highest threshold num reaches; the last entry of the
\* table is the lowest category, whose bound is not looked at.
BucketOf(name, num) ==
    LET table == Buckets(name)
        reached == {i \in 1..(Len(table) - 1) : ~Lt(num, table[i][1])}
    IN  IF reached = {} THEN table[Len(table)][2]
        ELSE table[CHOOSE i \in reached : \A j \in reached : i <= j][2]

LowestBucket(name) == Buckets(name)[Len(Buckets(name))][2]

\* The number the formatter reads from the raw value.
NumberRead(name, v) ==
    IF name \in {"format_rs_badge", "format_closing_range"} THEN parse_percent(v) ELSE parse_number(v)

(* C3: for a present numeric value every category formatter returns the    *)
(* category of the highest threshold the value is greater than or equal    *)
(* to, and the lowest category when it is below all of them; BIS 1.00 is   *)
(* strong, 0.999 and 0.50 are moderate, 0.499 is weak.                     *)
C3_ThresholdsInclusive ==
    /\ (op \in CategoryFormatters /\ ~NumberRead(op, value).none)
            => result[2] = BucketOf(op, NumberRead(op, value))
    /\ op = "format_bis" =>
            /\ value = <<"1", ".", "0", "0">> => result[2] = "bis-strong"
            /\ value = <<"0", ".", "9", "9", "9">> => result[2] = "bis-moderate"
            /\ value = <<"0", ".", "5", "0">> => result[2] = "bis-moderate"
            /\ value = <<"0", ".", "4", "9", "9">> => result[2] = "bis-weak"

C3_Witness ==
    /\ op = "format_bis"
    /\ value = <<"0", ".", "5", "0">>
    /\ result = <<<<"0", ".", "5", "0">>, "bis-moderate">>

\* The row has no number in the column --sort names: the cell is missing,
\* empty, blank or no numeral once separators (and, in a percentage column,
\* the percent sign) are removed.
AbsentIn(row, sort_col) ==
    LET col == col_map(sort_col)
        v == Get(row, col, <<>>)
    IN  Blank(v) \/ ~IsNumeral(Cleaned(v, IF col \in pct_cols THEN {",", "%"} ELSE {","}))

Sorted == pc \in {"render", "path"}

(* C1: after main has sorted the rows by a column, no row without a value  *)
(* in that column stands before a row with one, whether the order is asc   *)
(* or desc.                                                                *)
C1_AbsentRowsLast ==
    Sorted =>
        \A i, j \in 1..Len(rows) :
            i < j => ~(AbsentIn(rows[i], sortArg.sort) /\ ~AbsentIn(rows[j], sortArg.sort))

\* The same for the descending order alone, which the code does keep for
\* the values above the sentinel.
C1_AbsentRowsLastDesc ==
    (Sorted /\ sortArg.order = "desc") =>
        \A i, j \in 1..Len(rows) :
            i < j => ~(AbsentIn(rows[i], sortArg.sort) /\ ~AbsentIn(rows[j], sortArg.sort))

\* The field each cell of a rendered row shows.
CellField ==
    [ticker |-> "Ticker", rs |-> "Composite RS", name |-> "Name", price |-> "Price",
     liq |-> "Daily Liquidity", bis |-> "BIS", dcr |-> "Daily Closing Range",
     adr |-> "ADR %", contr |-> "Price Contraction", rvol |-> "RVol",
     from_open |-> "% From Open", rank |-> "RS Rank"]

\* The formatter behind each coloured cell.
CellFormatter ==
    [rs |-> "format_rs_badge", bis |-> "format_bis", dcr |-> "format_closing_range",
     contr |-> "format_contraction", rvol |-> "format_rvol", from_open |-> "format_from_open"]

ColouredCells == DOMAIN CellFormatter
TextCells == {"ticker", "name", "rank"}

\* The row has no value for the field: no such column, None, or empty.
NoValue(row, f) == f \notin DOMAIN row \/ row[f] = PyNone \/ row[f] = <<>>

CellText(cell, c) == IF c \in ColouredCells THEN cell[c][1] ELSE cell[c]

Rendered == pc = "path"

(* C4, as stated: in every rendered row, every cell of a field without a   *)
(* value shows the dash, and a coloured cell then carries the lowest       *)
(* category of its field, the one a value under all thresholds gets.       *)
C4_AbsentDashLowestBucket ==
    Rendered =>
        \A i \in 1..Len(rows) : \A c \in DOMAIN CellField :
            NoValue(rows[i], CellField[c]) =>
                /\ CellText(cells[i], c) = Dash
                /\ c \in ColouredCells => cells[i][c][2] = LowestBucket(CellFormatter[c])

(* C4, amended: every numeric cell (RS, Price, Liquidity, BIS, DCR, ADR %, *)
(* Price Contraction, RVol, % From Open) of a field without a value shows  *)
(* the dash; the coloured ones then carry the lowest category of the       *)
(* field, except % From Open, which carries from-open-neutral, a category  *)
(* no present value gets.  The text cells are not dashed: a Ticker or Name *)
(* that is empty or has no column shows as empty text, and RS Rank shows   *)
(* the dash only when the row has no such column, empty text when empty.   *)
C4_AbsentDashAmended ==
    Rendered =>
        \A i \in 1..Len(rows) : \A c \in DOMAIN CellField :
            NoValue(rows[i], CellField[c]) =>
                /\ c \notin TextCells => CellText(cells[i], c) = Dash
                /\ c \in ColouredCells \ {"from_open"} =>
                        cells[i][c][2] = LowestBucket(CellFormatter[c])
                /\ c = "from_open" =>
                        /\ cells[i][c][2] = "from-open-neutral"
                        /\ \A k \in 1..Len(Buckets("format_from_open")) :
                                Buckets("format_from_open")[k][2] # "from-open-neutral"
                /\ (c \in {"ticker", "name"} /\ Get(rows[i], CellField[c], <<>>) = <<>>) =>
                        cells[i][c] = <<>>
                /\ c = "rank" =>
                        /\ "RS Rank" \notin DOMAIN rows[i] => cells[i][c] = Dash
                        /\ Get(rows[i], "RS Rank", Dash) = <<>> => cells[i][c] = <<>>

\* A rendered row whose only column, RVol, is empty.
C4_Witness ==
    /\ Rendered
    /\ header = {"RVol"}
    /\ Len(rows) = 1
    /\ rows[1]["RVol"] = <<>>
    /\ cells[1].rvol = <<Dash, "rvol-low">>
    /\ cells[1].from_open = <<Dash, "from-open-neutral">>
    /\ cells[1].ticker = <<>>

Returned == pc = "returned"

Unnamed(e) == e.name = PyNone \/ e.name = <<>>

(* C5, as stated: the list update_manifest returns and writes is ordered   *)
(* by date descending, and among the scans of one date by name ascending   *)
(* with the unnamed scan last.                                             *)
C5_DateDescNameAsc ==
    Returned =>
        \A i, j \in 1..Len(scans) :
            i < j =>
                /\ ~StrLt(scans[i].date, scans[j].date)
                /\ scans[i].date = scans[j].date =>
                        /\ ~(Unnamed(scans[i]) /\ ~Unnamed(scans[j]))
                        /\ (~Unnamed(scans[i]) /\ ~Unnamed(scans[j]))
                                => ~StrLt(scans[j].name, scans[i].name)

(* C5, amended: the list is ordered by date descending, and among the      *)
(* scans of one date by name descending, the scans without a name last;    *)
(* the file lists the same scans in the same order.                        *)
C5_DateDescNameDesc ==
    Returned =>
        /\ \A i, j \in 1..Len(scans) :
            i < j =>
                /\ ~StrLt(scans[i].date, scans[j].date)
                /\ scans[i].date = scans[j].date =>
                        /\ ~(Unnamed(scans[i]) /\ ~Unnamed(scans[j]))
                        /\ (~Unnamed(scans[i]) /\ ~Unnamed(scans[j]))
                                => ~StrLt(scans[i].name, scans[j].name)
        /\ Len(fs[ManifestFile].body) = Len(scans)
        /\ \A i \in 1..Len(scans) : fs[ManifestFile].body[i].id = scans[i].id

\* Three scans of one date: named b, named a, unnamed.
C5_Witness ==
    /\ Returned
    /\ Len(scans) = 3
    /\ scans[1].name = <<"b">>
    /\ scans[2].name = <<"a">>
    /\ scans[3].name = PyNone
    /\ scans[1].date = scans[3].date

\* YYYY-MM-DD, or YYYY-MM-DD-name.
IsDateStem(st) ==
    /\ Len(st) >= 10
    /\ \A i \in {1, 2, 3, 4, 6, 7, 9, 10} : IsDigit(st[i])
    /\ st[5] = "-" /\ st[8] = "-"
    /\ Len(st) > 10 => (st[11] = "-" /\ Len(st) > 11)

ManifestBody == fs[ManifestFile].body

(* C6: the manifest written has exactly one entry for every .html file of  *)
(* the scans directory whose stem is YYYY-MM-DD or YYYY-MM-DD-name and no  *)
(* other entry; an entry's id is the stem, its date the YYYY-MM-DD part,   *)
(* its name the part after the separating hyphen, null when there is none: *)
(* id = date, or id = date-name.                                           *)
C6_ManifestEntries ==
    Returned =>
        /\ \A f \in DOMAIN fs :
            (f.dir = "scans" /\ f.ext = "html" /\ IsDateStem(f.stem)) =>
                Cardinality({i \in 1..Len(ManifestBody) : ManifestBody[i].id = f.stem}) = 1
        /\ \A i \in 1..Len(ManifestBody) :
            LET e == ManifestBody[i]
            IN  /\ File("scans", e.id, "html") \in DOMAIN fs
                /\ IsDateStem(e.id)
                /\ e.date = SubSeq(e.id, 1, 10)
                /\ e.id = (IF e.name = JsNull THEN e.date ELSE e.date \o <<"-">> \o e.name)

Has(seq, x) == \E i \in 1..Len(seq) : seq[i] = x

\* Every step of the run stands in the run's record in the given order.
InOrder(order) ==
    \A i, j \in 1..Len(steps) :
        i < j => \E k, l \in 1..Len(order) : k < l /\ order[k] = steps[i] /\ order[l] = steps[j]

(* C7, as stated: the steps of every run are taken in the order load,      *)
(* sort, render, write, screenshot, manifest rewrite, push; with an image  *)
(* and a publication both asked for, the screenshot comes first.           *)
C7_OrderScreenshotFirst ==
    InOrder(<<"load", "sort", "render", "write", "screenshot", "manifest", "push">>)

\* The steps a run that ends normally has taken, for its arguments.
StepsFor(a) ==
    <<"load", "sort", "render", "write">>
        \o (IF a.publish THEN <<"manifest">> ELSE <<>>)
        \o (IF a.png THEN <<"screenshot">> ELSE <<>>)
        \o (IF a.push /\ a.publish THEN <<"push">> ELSE <<>>)

(* C7, amended: the steps of every run are taken one after the other in    *)
(* the order load, sort, render, write, manifest rewrite (publish mode),   *)
(* screenshot (when asked for), push (when asked for, in publish mode):    *)
(* the manifest is rewritten before the screenshot is taken.  A run that   *)
(* ends normally has taken exactly the steps its arguments ask for.        *)
C7_OrderManifestFirst ==
    /\ InOrder(<<"load", "sort", "render", "write", "manifest", "screenshot", "push">>)
    /\ status = "exit 0" => steps = StepsFor(args)

C7_Witness ==
    /\ status = "exit 0"
    /\ steps = <<"load", "sort", "render", "write", "manifest", "screenshot", "push">>

\* Nothing on disk was written by this run.
NothingWritten == \A f \in DOMAIN fs : fs[f].kind = "old"

(* C8: when the input file does not exist the run prints the message and   *)
(* ends with status 1 before any other step: nothing is loaded, no file is *)
(* written, no version-control command is run, whatever the other flags.   *)
C8_MissingInputFatal ==
    ~args.exists =>
        /\ pc \in {"start", "exited"}
        /\ steps = <<>>
        /\ git = <<>>
        /\ NothingWritten
        /\ pc = "exited" => (status = "exit 1" /\ printed = <<"File not found">>)

C8_Witness ==
    /\ ~args.exists
    /\ args.png /\ args.publish /\ args.push
    /\ pc = "exited"
    /\ status = "exit 1"
    /\ NothingWritten

\* The screenshot step was taken and no image was reported.
PngFailed == Has(steps, "screenshot") /\ ~Has(printed, "PNG saved")

(* C9: when the image is asked for and the screenshot tool is missing or   *)
(* fails, the run prints a warning and goes on: generate_png returns       *)
(* without raising, the HTML written (and the manifest, in publish mode)   *)
(* is as it was written, and the push step is still taken when asked for.  *)
C9_ScreenshotFailureContinues ==
    PngFailed =>
        /\ Has(printed, "PNG generation failed") \/ Has(printed, "PNG generation requires playwright")
        /\ fs[html_path] = [kind |-> "html", body |-> cells]
        /\ args.publish => fs[ManifestFile] = ManifestContent(scans)
        /\ pc \in {"push", "finish"} => status = "running"
        /\ status = "crash" => Has(steps, "push")
        /\ (pc = "exited" /\ args.push /\ args.publish) => Has(steps, "push")
        /\ (pc = "exited" /\ args.push /\ ~args.publish) =>
                Has(printed, "Warning: --push requires --publish")

C9_Witness ==
    /\ PngFailed
    /\ args.publish /\ args.push
    /\ pc = "exited"
    /\ status = "exit 0"
    /\ git = <<"add", "commit", "push">>

(* C10: a version-control command is run only if both push and publish     *)
(* were asked for; with push and no publish the run warns, runs no such    *)
(* command and ends normally with the HTML written.                        *)
C10_PushNeedsPublish ==
    /\ git # <<>> => (args.push /\ args.publish)
    /\ (args.exists /\ args.push /\ ~args.publish /\ pc = "exited") =>
            /\ Has(printed, "Warning: --push requires --publish")
            /\ status = "exit 0"
            /\ Has(steps, "write")
            /\ fs[html_path] = [kind |-> "html", body |-> cells]

C10_Witness ==
    /\ args.push /\ ~args.publish
    /\ pc = "exited"
    /\ status = "exit 0"
    /\ git = <<>>
    /\ Has(printed, "Warning: --push requires --publish")

\* The push step was taken: publish and push were both asked for.
PushTaken == Has(steps, "push")

(* C11: when publish and push are asked for, a failure of the version-     *)
(* control step (the commit message cannot be built from the scan date,    *)
(* there is no executable, or add, commit or push fails) is reported and   *)
(* is not fatal: the run ends normally, and the HTML and the manifest are  *)
(* as they were written.                                                   *)
C11_GitFailureNonFatal ==
    PushTaken =>
        /\ status \in {"running", "exit 0"}
        /\ (pc = "exited" /\ git # <<"add", "commit", "push">>) => Has(printed, "Git error")
        /\ fs[html_path] = [kind |-> "html", body |-> cells]
        /\ fs[ManifestFile] = ManifestContent(scans)

\* The numeric columns that are rendered through a formatter.
NumericFields ==
    {"BIS", "Composite RS", "Daily Closing Range", "Price Contraction", "ADR %", "RVol",
     "% From Open", "Price", "Daily Liquidity"}

\* The number the renderer reads from the raw value of a field.
PreRender(f, raw) ==
    IF f \in {"Composite RS", "Daily Closing Range"} THEN parse_percent(raw) ELSE parse_number(raw)

\* x <= y of the script: null counts as 0, and nothing is <= or >= NaN.
JsLe(x, y) ==
    /\ ~x.err /\ ~y.err
    /\ ~Lt(IF y.none THEN Lit(0) ELSE y, IF x.none THEN Lit(0) ELSE x)

RECURSIVE SplitWords(_, _)
SplitWords(s, word) ==
    IF s = <<>> THEN <<word>>
    ELSE IF Head(s) = " " THEN <<word>> \o SplitWords(Tail(s), <<>>)
    ELSE SplitWords(Tail(s), Append(word, Head(s)))

\* Word by word: a suffix goes, Technology and Technologies become Tech,
\* every other word stays.
RECURSIVE Shortened(_)
Shortened(ws) ==
    IF ws = <<>> THEN <<>>
    ELSE (IF Head(ws) \in SuffixWords THEN <<>>
          ELSE IF Head(ws) \in TechWords THEN <<<<"T", "e", "c", "h">>>>
          ELSE <<Head(ws)>>) \o Shortened(Tail(ws))

(* C13: shorten_name of an empty or missing name is the empty string; of   *)
(* a name that starts with a base word it is the name with every listed    *)
(* suffix word taken out, Technology and Technologies turned into Tech,    *)
(* and every other word unchanged.                                         *)
C13_ShortenName ==
    op = "shorten_name" =>
        /\ Falsy(value) => result = <<>>
        /\ (~Falsy(value) /\ SplitWords(value, <<>>)[1] \in BaseWords) =>
                result = JoinWords(Shortened(SplitWords(value, <<>>)))

\* The rows of the page are in the given direction in a column: of two
\* rows that both show a value (a number, or a text in a text column), the
\* upper one is not the greater (ascending) or not the smaller (descending).
InDirection(colIndex, asc) ==
    \A i, j \in 1..Len(tbody) :
        LET type == DataType(colIndex)
            ti == textContent(tbody[i], colIndex)
            tj == textContent(tbody[j], colIndex)
            vi == parseValue(ti, type)
            vj == parseValue(tj, type)
        IN  (i < j /\ ~IsNull(ti) /\ ~IsNull(tj)) =>
                IF type = "string"
                THEN (IF asc THEN ~LocaleLt(vj, vi) ELSE ~LocaleLt(vi, vj))
                ELSE (~vi.err /\ ~vj.err) => (IF asc THEN ~Lt(vj, vi) ELSE ~Lt(vi, vj))

\* The rows whose cell is '-' or empty are under all the others.
NullsLast(colIndex) ==
    \A i, j \in 1..Len(tbody) :
        (i < j /\ IsNull(textContent(tbody[i], colIndex))) => IsNull(textContent(tbody[j], colIndex))

\* After a click: one header is marked, currentSort names it with the
\* direction its arrow shows, and the rows are sorted that way, nulls last.
AfterClick ==
    (pc = "page" /\ sortedHeaders # {}) =>
        /\ Cardinality(sortedHeaders) = 1
        /\ currentSort.col # <<>>
        /\ sortedHeaders = {currentSort.col[1]}
        /\ arrows[currentSort.col[1]] = (IF currentSort.asc THEN "up" ELSE "down")
        /\ \A i \in ColIndexes \ sortedHeaders : arrows[i] = "updown"
        /\ NullsLast(currentSort.col[1])

\* A click on another column sorts descending; on the same column it flips.
Toggles ==
    sortedHeaders' # {} =>
        LET clicked == CHOOSE i \in sortedHeaders' : TRUE
        IN  arrows'[clicked] =
                (IF clicked \in sortedHeaders /\ arrows[clicked] = "down" THEN "up" ELSE "down")

(* C14: in the page, a click on a column other than the sorted one sorts   *)
(* that column descending, and every further click on the same column      *)
(* flips the direction; after every click currentSort holds the clicked    *)
(* column and the direction applied, exactly that header is marked sorted, *)
(* the rows are in that direction, and the rows whose cell is '-' or empty *)
(* come after all the others.                                              *)
C14_ClickSortsAndToggles ==
    /\ [](AfterClick /\ (currentSort.col # <<>> => InDirection(currentSort.col[1], currentSort.asc)))
    /\ [][Toggles]_vars

\* The ids of the entries of the manifest on disk.
ManifestIds == {fs[ManifestFile].body[i].id : i \in 1..Len(fs[ManifestFile].body)}

(* C15: after any sequence of publish runs, with any --date and --name,    *)
(* the manifest the last run wrote has an entry whose id is the scan id    *)
(* just written, an entry for every page earlier runs published that is    *)
(* still in the scans directory, and no entry but for the pages in the     *)
(* directory: it is made from the directory, not from the old manifest.    *)
C15_ManifestListsPublished ==
    (pc = "finish" /\ args.publish) =>
        /\ html_path.stem \in ManifestIds
        /\ \A f \in Pages : f.stem \in ManifestIds
        /\ \A id \in ManifestIds : File("scans", id, "html") \in Pages

(* C16: the sorter and the renderer agree on what is absent: for every row *)
(* and every numeric column that is sorted and rendered, get_sort_value    *)
(* gives the sentinel exactly when the rendered cell is the dash, also for *)
(* raw values with a percent sign and raw values equal to zero.            *)
C16_SorterRendererAgree ==
    Rendered =>
        \A i \in 1..Len(rows) : \A f \in NumericFields :
            (get_sort_value(rows[i], f) = Sentinel)
                <=> (textContent(cells[i], ColumnOf(f)) = Dash)

=============================================================================
